---------------------------- MODULE Spec2Model ----------------------------
(***************************************************************************)
(* Model of streamlit_app.py: the Profile Builder                          *)
(* (processar_dados_streamlit), the Financial Calculator                   *)
(* (analisar_fluxo_caixa, planejar_reserva_emergencia) and the pipeline    *)
(* main() runs for one form submission.                                    *)
(*                                                                         *)
(* Monetary amounts are integers (a fixed number of currency units); a     *)
(* Python dict is a function whose DOMAIN is the dict's key set; a list is *)
(* a sequence.  A quotient of two amounts is kept as the reduced fraction  *)
(* num/den, float('inf') as the value Inf.  The report text is the         *)
(* sequence of the parts joined into it, the empty string being <<>>.      *)
(*                                                                         *)
(* The remote spreadsheet is one document per name with its worksheets,    *)
(* each worksheet the sequence of its rows.  Every gspread call is a step  *)
(* that the service answers "ok" or with an error.                         *)
(***************************************************************************)
EXTENDS Integers, Sequences, FiniteSets, TLC

VARIABLES
    pc,             \* position of the run in main() / in the calculator harness
    entrada,        \* the raw arguments handed to processar_dados_streamlit
    dados_usuario,  \* the DadosFinanceirosUsuario object
    rodadas,        \* completed runs of the two calculator stages on dados_usuario
    MODEL_IA,       \* main()'s generative model handle, None until configured
    CLIENT_SHEETS,  \* main()'s spreadsheet client, None until authenticated
    tela,           \* what the run has shown to the user, in order
    chamadas,       \* the outbound calls the run has made, in order
    planilha_url,   \* what gerar_planilha_google_sheets returned to main()
    pub,            \* the runs of gerar_planilha_google_sheets followed step by step
    doc             \* the remote spreadsheet document of the fixed sheet_name

varsMain == <<MODEL_IA, CLIENT_SHEETS, tela, chamadas, planilha_url>>
varsPub == <<pub, doc>>
vars == <<pc, entrada, dados_usuario, rodadas, MODEL_IA, CLIENT_SHEETS, tela,
          chamadas, planilha_url, pub, doc>>

---------------------------------------------------------------------------
(* Bounds of the model *)

\* largest amount typed into one expense or asset field
MaxValor == 2
\* largest monthly net income
MaxRenda == 3
\* how many times the calculator stages are run on one snapshot
MaxRodadas == 2
\* largest installment count typed into the debt fields
MaxParcelas == 1

---------------------------------------------------------------------------
(* Python values *)

None == "None"
ZeroDivisionError == [inf |-> FALSE, num |-> 0, den |-> 0]
Inf == [inf |-> TRUE, num |-> 1, den |-> 0]

RECURSIVE Mdc(_, _)
Mdc(a, b) == IF b = 0 THEN a ELSE Mdc(b, a % b)

\* the float n / d for n >= 0: the reduced fraction, or the exception when d = 0
Dividir(n, d) ==
    IF d = 0 THEN ZeroDivisionError
    ELSE [inf |-> FALSE, num |-> n \div Mdc(n, d), den |-> d \div Mdc(n, d)]

\* the float 0.0 the constructor gives tempo_para_montar_reserva_meses
Zero == [inf |-> FALSE, num |-> 0, den |-> 1]

Max(a, b) == IF a >= b THEN a ELSE b

\* {}
DictVazio == [k \in {} |-> 0]

\* d.get(k, padrao)
DictGet(d, k, padrao) == IF k \in DOMAIN d THEN d[k] ELSE padrao

\* sum(d.values())
RECURSIVE SomaValores(_)
SomaValores(d) ==
    IF DOMAIN d = {} THEN 0
    ELSE LET k == CHOOSE c \in DOMAIN d : TRUE
         IN  d[k] + SomaValores([c \in DOMAIN d \ {k} |-> d[c]])

\* {k: v for k, v in d.items() if k in chaves}
Restringir(d, chaves) == [k \in DOMAIN d \cap chaves |-> d[k]]

\* str.lower() on the strings the stability selectbox offers
Lower(s) ==
    CASE s = "CLT" -> "clt"
      [] s = "Autônomo" -> "autônomo"
      [] s = "Informal" -> "informal"
      [] s = "Empresário" -> "empresário"
      [] s = "Aposentado" -> "aposentado"
      [] s = "Outro" -> "outro"
      [] OTHER -> s

---------------------------------------------------------------------------
(* The form's fixed lists *)

categorias_sugeridas ==
    { "Moradia (Aluguel)", "Alimentação",
      "Transporte (Carro, Transporte Público, Uber...)", "Saúde", "Educação",
      "Lazer", "Assinaturas", "Contas de Consumo (água, luz, gás)",
      "Outros (Cabelo, Estética...)" }

bens_sugeridos ==
    { "Imóveis", "Veículos", "Investimentos",
      "Contas Bancárias (saldo total)", "Outros Ativos" }

opcoes_estabilidade ==
    { "CLT", "Autônomo", "Informal", "Empresário", "Aposentado", "Outro" }

---------------------------------------------------------------------------
(* class DadosFinanceirosUsuario *)

DadosFinanceirosUsuario ==
    [ email_pessoal_usuario           |-> "",
      renda_liquida_mensal            |-> 0,
      fonte_renda                     |-> "",
      gastos_por_categoria            |-> DictVazio,
      patrimonio                      |-> DictVazio,
      dividas                         |-> <<>>,
      dependentes                     |-> 0,
      estabilidade_financeira         |-> "",
      total_gastos_mensais            |-> 0,
      total_gastos_essenciais         |-> 0,
      classificacao_gastos            |-> DictVazio,
      status_fluxo_caixa              |-> "",
      saldo_mensal                    |-> 0,
      valor_reserva_emergencia_ideal  |-> 0,
      meses_reserva_sugerido          |-> 0,
      saldo_mensal_para_reserva       |-> 0,
      tempo_para_montar_reserva_meses |-> Zero,
      meta_mensal_reserva             |-> 0,
      relatorio_mensal_simulado       |-> <<>>,
      feedback_ia_comportamento       |-> "" ]

---------------------------------------------------------------------------
(* processar_dados_streamlit *)

classificacao_padrao ==
    [ cat \in categorias_sugeridas |->
        CASE cat = "Moradia (Aluguel)" ->
                [tipo |-> "Essencial", natureza |-> "Fixo"]
          [] cat = "Alimentação" ->
                [tipo |-> "Essencial", natureza |-> "Variável"]
          [] cat = "Transporte (Carro, Transporte Público, Uber...)" ->
                [tipo |-> "Essencial", natureza |-> "Variável"]
          [] cat = "Saúde" ->
                [tipo |-> "Essencial", natureza |-> "Variável"]
          [] cat = "Educação" ->
                [tipo |-> "Essencial", natureza |-> "Fixo"]
          [] cat = "Lazer" ->
                [tipo |-> "Supérfluo", natureza |-> "Variável"]
          [] cat = "Assinaturas" ->
                [tipo |-> "Supérfluo", natureza |-> "Fixo"]
          [] cat = "Contas de Consumo (água, luz, gás)" ->
                [tipo |-> "Essencial", natureza |-> "Variável"]
          [] cat = "Outros (Cabelo, Estética...)" ->
                [tipo |-> "Variável", natureza |-> "Variável"] ]

\* variant of the default: an absent category counted as essential
classificacao_ausente_essencial == [tipo |-> "Essencial", natureza |-> "Variável"]

\* the default of classificacao_padrao.get(cat, ...)
classificacao_ausente == [tipo |-> "Variável", natureza |-> "Variável"]

\* variants of the filter: no filter at all, and v >= 0
ApenasPositivos_sem_filtro(d) == d
ApenasPositivos_com_zero(d) == Restringir(d, {k \in DOMAIN d : d[k] >= 0})

\* {k: v for k, v in d.items() if v > 0}
ApenasPositivos(d) == Restringir(d, {k \in DOMAIN d : d[k] > 0})

\* {cat: classificacao_padrao.get(cat, {...}) for cat in gastos.keys()}
Classificar(gastos) ==
    [ cat \in DOMAIN gastos |->
        DictGet(classificacao_padrao, cat, classificacao_ausente) ]

processar_dados_streamlit(e) ==
    LET gastos == ApenasPositivos(e.gastos_dict)
    IN  [ DadosFinanceirosUsuario EXCEPT
            !.email_pessoal_usuario   = e.email,
            !.renda_liquida_mensal    = e.renda,
            !.fonte_renda             = e.fonte_renda,
            !.dependentes             = e.dependentes,
            !.estabilidade_financeira = e.estabilidade,
            !.gastos_por_categoria    = gastos,
            !.patrimonio              = ApenasPositivos(e.patrimonio_dict),
            !.dividas                 = e.dividas_list,
            !.classificacao_gastos    = Classificar(gastos) ]

---------------------------------------------------------------------------
(* analisar_fluxo_caixa *)

\* classificacao_gastos.get(categoria, {}).get('tipo')
TipoDe(classificacao, categoria) ==
    IF categoria \in DOMAIN classificacao
    THEN classificacao[categoria].tipo
    ELSE None

\* the generator summed into total_gastos_essenciais
GastosEssenciais(d) ==
    Restringir(d.gastos_por_categoria,
               { categoria \in DOMAIN d.gastos_por_categoria :
                   TipoDe(d.classificacao_gastos, categoria) = "Essencial" })

\* variant of the status: a zero balance reported as surplus
StatusFluxoCaixa_sem_equilibrio(saldo) ==
    IF saldo >= 0 THEN "Superavitário" ELSE "Deficitário"

StatusFluxoCaixa(saldo) ==
    IF saldo > 0 THEN "Superavitário"
    ELSE IF saldo < 0 THEN "Deficitário"
    ELSE "Equilibrado"

\* variant of the stage: the total summed over the essential categories only
analisar_fluxo_caixa_total_essenciais(d) ==
    LET essenciais == SomaValores(GastosEssenciais(d))
        saldo == d.renda_liquida_mensal - essenciais
    IN  [ d EXCEPT
            !.total_gastos_mensais    = essenciais,
            !.total_gastos_essenciais = essenciais,
            !.saldo_mensal            = saldo,
            !.status_fluxo_caixa      = StatusFluxoCaixa(saldo) ]

\* variant of the stage: the totals accumulated (+=) instead of assigned
analisar_fluxo_caixa_acumula(d) ==
    LET total == d.total_gastos_mensais + SomaValores(d.gastos_por_categoria)
        essenciais == d.total_gastos_essenciais + SomaValores(GastosEssenciais(d))
        saldo == d.renda_liquida_mensal - total
    IN  [ d EXCEPT
            !.total_gastos_mensais    = total,
            !.total_gastos_essenciais = essenciais,
            !.saldo_mensal            = saldo,
            !.status_fluxo_caixa      = StatusFluxoCaixa(saldo) ]

analisar_fluxo_caixa(d) ==
    LET total == SomaValores(d.gastos_por_categoria)
        essenciais == SomaValores(GastosEssenciais(d))
        saldo == d.renda_liquida_mensal - total
    IN  [ d EXCEPT
            !.total_gastos_mensais    = total,
            !.total_gastos_essenciais = essenciais,
            !.saldo_mensal            = saldo,
            !.status_fluxo_caixa      = StatusFluxoCaixa(saldo) ]

---------------------------------------------------------------------------
(* planejar_reserva_emergencia *)

\* variant of the horizon: the category compared without .lower()
MesesSugerido_sem_lower(estabilidade) ==
    IF estabilidade \in {"autônomo", "informal"} THEN 12 ELSE 6

MesesSugerido(estabilidade) ==
    IF Lower(estabilidade) \in {"autônomo", "informal"} THEN 12 ELSE 6

\* variant of the branch: the division guarded by >= 0
TempoEMeta_sem_guarda(ideal, para_reserva) ==
    IF para_reserva >= 0
    THEN << Dividir(ideal, para_reserva), para_reserva >>
    ELSE << Inf, 0 >>

\* the branch on saldo_mensal_para_reserva: <<tempo, meta>>
TempoEMeta(ideal, para_reserva) ==
    IF para_reserva > 0
    THEN << IF para_reserva > 0 THEN Dividir(ideal, para_reserva) ELSE Inf,
            para_reserva >>
    ELSE << Inf, 0 >>

\* variant of the stage: the target sized on all expenses
planejar_reserva_emergencia_sobre_total(d) ==
    LET meses_sugerido == MesesSugerido(d.estabilidade_financeira)
        ideal == d.total_gastos_mensais * meses_sugerido
        para_reserva == Max(0, d.saldo_mensal)
        tm == TempoEMeta(ideal, para_reserva)
    IN  [ d EXCEPT
            !.meses_reserva_sugerido          = meses_sugerido,
            !.valor_reserva_emergencia_ideal  = ideal,
            !.saldo_mensal_para_reserva       = para_reserva,
            !.tempo_para_montar_reserva_meses = tm[1],
            !.meta_mensal_reserva             = tm[2] ]

planejar_reserva_emergencia(d) ==
    LET meses_sugerido == MesesSugerido(d.estabilidade_financeira)
        ideal == d.total_gastos_essenciais * meses_sugerido
        para_reserva == Max(0, d.saldo_mensal)
        tm == TempoEMeta(ideal, para_reserva)
    IN  [ d EXCEPT
            !.meses_reserva_sugerido          = meses_sugerido,
            !.valor_reserva_emergencia_ideal  = ideal,
            !.saldo_mensal_para_reserva       = para_reserva,
            !.tempo_para_montar_reserva_meses = tm[1],
            !.meta_mensal_reserva             = tm[2] ]

---------------------------------------------------------------------------
(* gerar_planilha_google_sheets: the rows it writes *)

\* one line of a report or one two-cell row of a worksheet
Linha(rotulo, valor) == [rotulo |-> rotulo, valor |-> valor]

\* categorias_sugeridas in the order of the form, which is the insertion
\* order of gastos_dict and so of gastos_por_categoria
categorias_lista ==
    << "Moradia (Aluguel)", "Alimentação",
       "Transporte (Carro, Transporte Público, Uber...)", "Saúde", "Educação",
       "Lazer", "Assinaturas", "Contas de Consumo (água, luz, gás)",
       "Outros (Cabelo, Estética...)" >>

\* d.items() as the sequence of its keys
Chaves(d) ==
    LET Presente(c) == c \in DOMAIN d
    IN  SelectSeq(categorias_lista, Presente)

\* the three worksheets, in the order the publisher replaces them
titulos_abas == << "Resumo Geral", "Gastos Detalhados", "Dívidas" >>

resumo_data(d) ==
    << Linha("Item", "Valor/Detalhe"),
       Linha("Renda Líquida Mensal", d.renda_liquida_mensal),
       Linha("Total de Gastos Mensais", d.total_gastos_mensais),
       Linha("Total de Gastos Essenciais", d.total_gastos_essenciais),
       Linha("Saldo Mensal", d.saldo_mensal),
       Linha("Status do Fluxo de Caixa", d.status_fluxo_caixa),
       Linha("", ""),
       Linha("--- Reserva de Emergência ---", ""),
       Linha("Valor Ideal da Reserva", d.valor_reserva_emergencia_ideal),
       Linha([meses |-> d.meses_reserva_sugerido], ""),
       Linha("Saldo Mensal para Reserva", d.saldo_mensal_para_reserva),
       Linha("Tempo Estimado para Montar (meses)",
             IF d.tempo_para_montar_reserva_meses # Inf
             THEN d.tempo_para_montar_reserva_meses
             ELSE [texto |-> "Saldo insuficiente"]),
       Linha("Meta Mensal Sugerida", d.meta_mensal_reserva),
       Linha("", ""),
       Linha("--- Relatório Mensal Simulado ---", ""),
       [relatorio |-> d.relatorio_mensal_simulado],
       Linha("", "") >>

gastos_header == [cabecalho |-> <<"Categoria", "Valor (R$)", "Tipo", "Natureza">>]

gastos_rows(d) ==
    LET chaves == Chaves(d.gastos_por_categoria)
        NA == [tipo |-> "N/A", natureza |-> "N/A"]
    IN  <<gastos_header>> \o
        [ i \in 1 .. Len(chaves) |->
            LET categoria == chaves[i]
                classif == DictGet(d.classificacao_gastos, categoria, NA)
            IN  [ categoria |-> categoria,
                  valor     |-> d.gastos_por_categoria[categoria],
                  tipo      |-> classif.tipo,
                  natureza  |-> classif.natureza ] ]

dividas_header ==
    [cabecalho |-> << "Tipo", "Valor Original (R$)", "Valor Restante (R$)",
                      "Taxa Juros Anual (%)", "Parcelas Totais",
                      "Parcelas Restantes" >>]

dividas_placeholder == [aviso |-> "Nenhuma dívida informada."]

dividas_rows(d) ==
    LET rows == <<dividas_header>> \o
                [ i \in 1 .. Len(d.dividas) |->
                    LET divida == d.dividas[i]
                    IN  [ tipo               |-> divida.tipo,
                          valor_original     |-> divida.valor_original,
                          valor_restante     |-> divida.valor_restante,
                          taxa_percentual    |->
                            Dividir(divida.taxa_juros_anual.num * 100,
                                    divida.taxa_juros_anual.den),
                          parcelas_totais    |-> divida.parcelas_totais,
                          parcelas_restantes |-> divida.parcelas_restantes ] ]
    IN  IF Len(rows) = 1 THEN Append(rows, dividas_placeholder) ELSE rows

\* the rows written into worksheet number i
LinhasDaAba(i, d) ==
    CASE i = 1 -> resumo_data(d)
      [] i = 2 -> gastos_rows(d)
      [] OTHER -> dividas_rows(d)

---------------------------------------------------------------------------
(* The remote document and the gspread calls *)

\* the script runs that publish to the same document
Sessoes == {1, 2}

\* the answers of the service to one call
Respostas == {"ok", "erro"}

UrlPlanilha == "https://docs.google.com/spreadsheets/d/1"

\* no document of that name
DocInexistente ==
    [existe |-> FALSE, duplicatas |-> 0, leitores |-> {}, abas |-> DictVazio]

\* worksheet.update('A1', rows): the rows overwrite the first rows of the
\* worksheet, rows further down stay
Sobrescrever(atuais, rows) ==
    rows \o SubSeq(atuais, Len(rows) + 1, Len(atuais))

\* the worksheets with worksheet titulo set to rows
ComAba(abas, titulo, rows) ==
    [ t \in DOMAIN abas \cup {titulo} |-> IF t = titulo THEN rows ELSE abas[t] ]

---------------------------------------------------------------------------
(* gerar_planilha_google_sheets, one step per call to the service.  A run  *)
(* is the record e: its position pc (with the worksheet number secao), its *)
(* arguments dados and client, the local spreadsheet handle, what it       *)
(* returned (retorno), the st.* messages it showed (avisos) and the calls  *)
(* it made (ops), and whether a call of another run fell between its calls *)
(* (sobreposto).  Each step gives the run and the document after it.       *)

PubInicial(d, client) ==
    [ pc          |-> "inicio",
      secao       |-> 0,
      dados       |-> d,
      client      |-> client,
      spreadsheet |-> None,
      retorno     |-> "pendente",
      avisos      |-> <<>>,
      ops         |-> <<>>,
      sobreposto  |-> FALSE ]

\* a run that was never started
PubOcioso == [PubInicial(DadosFinanceirosUsuario, None) EXCEPT !.pc = "ocioso"]

\* the run and the document after a step
Apos(e, d) == [e |-> e, doc |-> d]

Op(e, nome) == [e EXCEPT !.ops = Append(@, <<nome, e.secao>>)]

\* return None after the messages msgs
RetornarNone(e, d, msgs) ==
    Apos([e EXCEPT !.pc = "fim", !.retorno = None, !.avisos = @ \o msgs], d)

\* the outer except Exception
ErroGeral(e, d) == RetornarNone(e, d, <<"erro: ERRO GERAL">>)

\* if client_sheets is None
PassoInicio(e, d, r) ==
    IF e.client = None
    THEN RetornarNone(e, d, <<"erro: cliente não autenticado">>)
    ELSE Apos([e EXCEPT !.pc = "open"], d)

\* variant of the lookup: create is called whatever the lookup answers
PassoAbrir_sempre_cria(e, d, r) ==
    IF r = "erro" THEN ErroGeral(Op(e, "open"), d)
    ELSE Apos([Op(e, "open") EXCEPT !.pc = "create"], d)

\* client_sheets.open(sheet_name)
PassoAbrir(e, d, r) ==
    IF r = "erro" THEN ErroGeral(Op(e, "open"), d)
    ELSE IF d.existe
    THEN Apos([Op(e, "open") EXCEPT !.pc = "share",
                                    !.spreadsheet = "spreadsheet"], d)
    ELSE Apos([Op(e, "open") EXCEPT
                 !.pc = "create",
                 !.avisos = Append(@, "aviso: planilha não encontrada")], d)

\* client_sheets.create(sheet_name); a second document of the name when
\* one exists
PassoCriar(e, d, r) ==
    IF r = "erro"
    THEN RetornarNone(Op(e, "create"), d, <<"erro: ERRO GRAVE ao criar">>)
    ELSE Apos([Op(e, "create") EXCEPT
                 !.pc = "share",
                 !.spreadsheet = "spreadsheet",
                 !.avisos = Append(@, "sucesso: planilha criada")],
              IF d.existe
              THEN [d EXCEPT !.duplicatas = @ + 1]
              ELSE [d EXCEPT !.existe = TRUE])

\* on to the first worksheet after the message msg
AposCompartilhar(e, msg) ==
    [e EXCEPT !.pc = "worksheet", !.secao = 1, !.avisos = Append(@, msg)]

\* variant of the sharing: a failed share ends the publication
PassoCompartilhar_fatal(e, d, r) ==
    LET email == e.dados.email_pessoal_usuario
    IN  IF email # ""
        THEN IF r = "ok"
             THEN Apos(AposCompartilhar(Op(e, "share"), "sucesso: planilha enviada"),
                       [d EXCEPT !.leitores = @ \cup {email}])
             ELSE RetornarNone(Op(e, "share"), d,
                               <<"aviso: não foi possível compartilhar">>)
        ELSE Apos(AposCompartilhar(e, "info: email não fornecido"), d)

\* spreadsheet.share(email, perm_type='user', role='writer')
PassoCompartilhar(e, d, r) ==
    LET email == e.dados.email_pessoal_usuario
    IN  IF email # ""
        THEN IF r = "ok"
             THEN Apos(AposCompartilhar(Op(e, "share"), "sucesso: planilha enviada"),
                       [d EXCEPT !.leitores = @ \cup {email}])
             ELSE Apos(AposCompartilhar(Op(e, "share"),
                                        "aviso: não foi possível compartilhar"), d)
        ELSE Apos(AposCompartilhar(e, "info: email não fornecido"), d)

\* spreadsheet.worksheet(titulo)
PassoBuscarAba(e, d, r) ==
    IF r = "erro" THEN ErroGeral(Op(e, "worksheet"), d)
    ELSE IF titulos_abas[e.secao] \in DOMAIN d.abas
    THEN Apos([Op(e, "worksheet") EXCEPT !.pc = "clear"], d)
    ELSE Apos([Op(e, "worksheet") EXCEPT !.pc = "add_worksheet"], d)

\* spreadsheet.add_worksheet(title=titulo, ...): refused when a worksheet of
\* that title exists
PassoAdicionarAba(e, d, r) ==
    IF r = "erro" \/ titulos_abas[e.secao] \in DOMAIN d.abas
    THEN ErroGeral(Op(e, "add_worksheet"), d)
    ELSE Apos([Op(e, "add_worksheet") EXCEPT !.pc = "clear"],
              [d EXCEPT !.abas = ComAba(@, titulos_abas[e.secao], <<>>)])

\* variant of the clearing: the worksheet is left as it is
PassoLimpar_sem_efeito(e, d, r) ==
    IF r = "erro" THEN ErroGeral(Op(e, "clear"), d)
    ELSE Apos([Op(e, "clear") EXCEPT !.pc = "update"], d)

\* worksheet.clear()
PassoLimpar(e, d, r) ==
    IF r = "erro" THEN ErroGeral(Op(e, "clear"), d)
    ELSE Apos([Op(e, "clear") EXCEPT !.pc = "update"],
              [d EXCEPT !.abas = ComAba(@, titulos_abas[e.secao], <<>>)])

\* worksheet.update('A1', rows); after the last worksheet, return spreadsheet.url
PassoAtualizar(e, d, r) ==
    IF r = "erro" THEN ErroGeral(Op(e, "update"), d)
    ELSE LET titulo == titulos_abas[e.secao]
             depois == [d EXCEPT !.abas =
                          ComAba(@, titulo,
                                 Sobrescrever(d.abas[titulo],
                                              LinhasDaAba(e.secao, e.dados)))]
         IN  IF e.secao < Len(titulos_abas)
             THEN Apos([Op(e, "update") EXCEPT !.pc = "worksheet",
                                               !.secao = @ + 1], depois)
             ELSE Apos([Op(e, "update") EXCEPT !.pc = "fim",
                                               !.retorno = UrlPlanilha], depois)

\* the step of a run at its position
Passo(e, d, r) ==
    CASE e.pc = "inicio"        -> PassoInicio(e, d, r)
      [] e.pc = "open"          -> PassoAbrir(e, d, r)
      [] e.pc = "create"        -> PassoCriar(e, d, r)
      [] e.pc = "share"         -> PassoCompartilhar(e, d, r)
      [] e.pc = "worksheet"     -> PassoBuscarAba(e, d, r)
      [] e.pc = "add_worksheet" -> PassoAdicionarAba(e, d, r)
      [] e.pc = "clear"         -> PassoLimpar(e, d, r)
      [] e.pc = "update"        -> PassoAtualizar(e, d, r)

\* no call of the run is answered with an error
SemFalha == <<"nenhuma", 0>>

\* the whole call: the run from e on document d to its return, the service
\* answering the call at position falha with an error and every other "ok"
RECURSIVE gerar_planilha_google_sheets(_, _, _)
gerar_planilha_google_sheets(e, d, falha) ==
    IF e.pc = "fim" THEN Apos(e, d)
    ELSE CHOOSE fim \in
           { gerar_planilha_google_sheets(s.e, s.doc, falha) :
               s \in { Passo(e, d, IF <<e.pc, e.secao>> = falha THEN "erro"
                                                               ELSE "ok") } } :
           TRUE

---------------------------------------------------------------------------
(* The builder and the calculator as functions of their arguments:        *)
(* specification SpecCalc applies them to every well-typed argument.       *)

\* keys of the expense argument: one per classification of the table, and
\* one the table does not hold
CategoriasArg == { "Moradia (Aluguel)", "Lazer", "Outros (Cabelo, Estética...)", "Pets" }
BensArg == { "Imóveis" }
ValoresArg == {0 - 1} \cup (0 .. MaxValor)

DictsDe(chaves, valores) ==
    UNION { [S -> valores] : S \in SUBSET chaves }

EntradasCalc ==
    [ email           : {""},
      renda           : 0 .. MaxRenda,
      fonte_renda     : {""},
      dependentes     : {0},
      estabilidade    : {"CLT", "Autônomo"},
      gastos_dict     : DictsDe(CategoriasArg, ValoresArg),
      patrimonio_dict : DictsDe(BensArg, ValoresArg),
      dividas_list    : {<<>>} ]

InitCalc ==
    /\ pc = "calc_entrada"
    /\ entrada \in EntradasCalc
    /\ dados_usuario = DadosFinanceirosUsuario
    /\ rodadas = 0
    /\ MODEL_IA = None
    /\ CLIENT_SHEETS = None
    /\ tela = <<>>
    /\ chamadas = <<>>
    /\ planilha_url = None
    /\ pub = [p \in Sessoes |-> PubOcioso]
    /\ doc = DocInexistente

CalcProcessar ==
    /\ pc = "calc_entrada"
    /\ UNCHANGED varsPub
    /\ dados_usuario' = processar_dados_streamlit(entrada)
    /\ pc' = "calc_construido"
    /\ UNCHANGED <<entrada, rodadas, varsMain>>

CalcAnalisar ==
    /\ pc \in {"calc_construido", "calc_planejado"}
    /\ UNCHANGED varsPub
    /\ rodadas < MaxRodadas
    /\ dados_usuario' = analisar_fluxo_caixa(dados_usuario)
    /\ pc' = "calc_analisado"
    /\ UNCHANGED <<entrada, rodadas, varsMain>>

CalcPlanejar ==
    /\ pc = "calc_analisado"
    /\ UNCHANGED varsPub
    /\ dados_usuario' = planejar_reserva_emergencia(dados_usuario)
    /\ pc' = "calc_planejado"
    /\ rodadas' = rodadas + 1
    /\ UNCHANGED <<entrada, varsMain>>

NextCalc == CalcProcessar \/ CalcAnalisar \/ CalcPlanejar

SpecCalc == InitCalc /\ [][NextCalc]_vars

---------------------------------------------------------------------------
(* gerar_analise_ia, gerar_feedback_comportamento_ia *)

\* what model_ia.generate_content(full_prompt) / response.text can do
RespostasIA == { [ok |-> TRUE, text |-> "Análise da IA"],
                 [ok |-> FALSE, text |-> ""] }

MensagemFallbackIA ==
    "Não foi possível gerar uma análise detalhada da IA neste momento."

\* variant of the generator: no fixed message on failure
gerar_analise_ia_sem_fallback(resposta) == resposta.text

\* the try/except around the call: the text, or the fixed message
gerar_analise_ia(resposta) ==
    IF resposta.ok THEN resposta.text ELSE MensagemFallbackIA

\* variant of the narrative step: the text is stored over the cash-flow status
gerar_feedback_comportamento_ia_no_status(d, resposta) ==
    [d EXCEPT !.status_fluxo_caixa = gerar_analise_ia(resposta)]

gerar_feedback_comportamento_ia(d, resposta) ==
    [d EXCEPT !.feedback_ia_comportamento = gerar_analise_ia(resposta)]

---------------------------------------------------------------------------
(* gerar_relatorio_mensal_simulado *)

relatorio_parts(d) ==
    << Linha("--- Relatório Mensal de Acompanhamento Financeiro ---", ""),
       Linha("Período", "Análise Inicial"),
       Linha("Status do Fluxo de Caixa", d.status_fluxo_caixa),
       Linha("Saldo Mensal", d.saldo_mensal),
       Linha("Resumo de Gastos:", ""),
       Linha("Total Geral", d.total_gastos_mensais),
       Linha("Total Essenciais", d.total_gastos_essenciais),
       Linha("Total Supérfluos",
             d.total_gastos_mensais - d.total_gastos_essenciais),
       Linha("Situação da Reserva de Emergência:", ""),
       Linha("Valor Ideal", d.valor_reserva_emergencia_ideal),
       Linha("Meta Mensal para Construção", d.meta_mensal_reserva),
       IF d.tempo_para_montar_reserva_meses # Inf
       THEN Linha("Tempo Estimado para Atingir",
                  d.tempo_para_montar_reserva_meses)
       ELSE Linha("Saldo insuficiente para iniciar", Inf),
       Linha("Análise e Recomendações da IA:", ""),
       Linha(d.feedback_ia_comportamento, "") >>

gerar_relatorio_mensal_simulado(d) ==
    [d EXCEPT !.relatorio_mensal_simulado = relatorio_parts(d)]

---------------------------------------------------------------------------
(* main() *)

\* the form's fields the run reads: every suggested category and asset has a
\* number_input (min_value 0); amounts other than 0 are typed into these
CategoriasPreenchidas == { "Moradia (Aluguel)", "Lazer" }
BensPreenchidos == { "Imóveis" }
EmailsForm == { "", "usuario@gmail.com" }

FormDicts(chaves, preenchidas, valores) ==
    { d \in [chaves -> valores \cup {0}] :
        \A k \in chaves \ preenchidas : d[k] = 0 }

\* divida_tipo after the dropdown and the "Outro" text field
TiposDivida == { "", "Cartão de Crédito", "Outro (não especificado)" }

\* dividas_list as main() fills it from the debt fields
DividasList(divida_tipo, valor_original, valor_restante, taxa, totais, restantes) ==
    IF divida_tipo # "" /\ divida_tipo # "Outro (não especificado)"
       /\ valor_restante > 0
    THEN << [ tipo               |-> divida_tipo,
              valor_original     |-> valor_original,
              valor_restante     |-> valor_restante,
              taxa_juros_anual   |-> Dividir(taxa, 100),
              parcelas_totais    |-> totais,
              parcelas_restantes |-> restantes ] >>
    ELSE << >>

Mostrar(msgs) == tela' = tela \o msgs
Chamar(fn, ok) == chamadas' = Append(chamadas, [fn |-> fn, ok |-> ok])

Init ==
    /\ pc = "config_ia"
    /\ entrada = None
    /\ dados_usuario = DadosFinanceirosUsuario
    /\ rodadas = 0
    /\ MODEL_IA = None
    /\ CLIENT_SHEETS = None
    /\ tela = <<>>
    /\ chamadas = <<>>
    /\ planilha_url = None
    /\ pub = [p \in Sessoes |-> PubOcioso]
    /\ doc = DocInexistente

\* variant of the halt: the script goes on to its next section
Parar_continua == pc' = IF pc = "config_ia" THEN "config_sheets" ELSE "form"

\* st.stop(): the script run ends here
Parar == pc' = "parado"

\* GOOGLE_API_KEY from the secrets or the environment, then genai.configure
ConfigurarIA ==
    /\ pc = "config_ia"
    /\ UNCHANGED varsPub
    /\ \E api_key \in {"secrets", "env", "ausente"}, genai_ok \in BOOLEAN :
         IF api_key = "ausente"
         THEN /\ Mostrar(<<"erro: GOOGLE_API_KEY">>)
              /\ Parar
              /\ UNCHANGED MODEL_IA
         ELSE IF genai_ok
         THEN /\ MODEL_IA' = "gemini-2.0-flash"
              /\ pc' = "config_sheets"
              /\ UNCHANGED tela
         ELSE /\ Mostrar(<<"erro: Gemini">>)
              /\ Parar
              /\ UNCHANGED MODEL_IA
    /\ UNCHANGED <<entrada, dados_usuario, rodadas, CLIENT_SHEETS, chamadas,
                   planilha_url>>

\* the service account from the secrets or from the key file
ConfigurarSheets ==
    /\ pc = "config_sheets"
    /\ UNCHANGED varsPub
    /\ \E origem \in {"secrets", "arquivo"},
          credencial \in {"ok", "json_invalido", "arquivo_ausente", "auth_erro"} :
         /\ credencial = "json_invalido" => origem = "secrets"
         /\ credencial = "arquivo_ausente" => origem = "arquivo"
         /\ IF credencial = "ok"
            THEN /\ CLIENT_SHEETS' = "client"
                 /\ pc' = "form"
                 /\ IF origem = "arquivo"
                    THEN Mostrar(<<"sucesso: Sheets autenticado">>)
                    ELSE UNCHANGED tela
            ELSE /\ Mostrar(<<"erro: credenciais Sheets">>)
                 /\ Parar
                 /\ UNCHANGED CLIENT_SHEETS
    /\ UNCHANGED <<entrada, dados_usuario, rodadas, MODEL_IA, chamadas,
                   planilha_url>>

\* the form is rendered and read; without the submit button the run ends
Formulario ==
    /\ pc = "form"
    /\ UNCHANGED varsPub
    /\ \E submit_button \in BOOLEAN :
         IF submit_button
         THEN /\ \E email \in EmailsForm, renda \in 0 .. MaxRenda,
                    estabilidade \in opcoes_estabilidade,
                    gastos_dict \in FormDicts(categorias_sugeridas, CategoriasPreenchidas,
                                             0 .. MaxValor),
                    patrimonio_dict \in FormDicts(bens_sugeridos, BensPreenchidos,
                                                 {MaxValor}),
                    divida_tipo \in TiposDivida,
                    valor_restante \in 0 .. 1,
                    totais \in 0 .. MaxParcelas, restantes \in 0 .. MaxParcelas :
                   entrada' =
                     [ email           |-> email,
                       renda           |-> renda,
                       fonte_renda     |-> "",
                       dependentes     |-> 0,
                       estabilidade    |-> estabilidade,
                       gastos_dict     |-> gastos_dict,
                       patrimonio_dict |-> patrimonio_dict,
                       dividas_list    |->
                         DividasList(divida_tipo, 1, valor_restante, 18,
                                     totais, restantes) ]
              /\ pc' = "processar"
         ELSE /\ pc' = "fim_sem_envio"
              /\ UNCHANGED entrada
    /\ UNCHANGED <<dados_usuario, rodadas, varsMain>>

Processar ==
    /\ pc = "processar"
    /\ UNCHANGED varsPub
    /\ dados_usuario' = processar_dados_streamlit(entrada)
    /\ Mostrar(<<"Resultados da Análise">>)
    /\ pc' = "analisar"
    /\ UNCHANGED <<entrada, rodadas, MODEL_IA, CLIENT_SHEETS, chamadas,
                   planilha_url>>

Analisar ==
    /\ pc = "analisar"
    /\ UNCHANGED varsPub
    /\ dados_usuario' = analisar_fluxo_caixa(dados_usuario)
    /\ pc' = "planejar"
    /\ UNCHANGED <<entrada, rodadas, varsMain>>

Planejar ==
    /\ pc = "planejar"
    /\ UNCHANGED varsPub
    /\ dados_usuario' = planejar_reserva_emergencia(dados_usuario)
    /\ pc' = "exibir"
    /\ UNCHANGED <<entrada, rodadas, varsMain>>

\* variant of the display: the report is assembled next, before the
\* narrative call is made
Exibir_antes_da_ia ==
    /\ pc = "exibir"
    /\ UNCHANGED varsPub
    /\ Mostrar(<< "Resumo Numérico",
                  IF DOMAIN dados_usuario.gastos_por_categoria # {}
                  THEN "Detalhes de Gastos" ELSE "Nenhum gasto informado.",
                  IF dados_usuario.saldo_mensal_para_reserva > 0
                  THEN "Situação da Reserva de Emergência"
                  ELSE "aviso: saldo não permite iniciar a reserva",
                  IF dados_usuario.dividas # <<>>
                  THEN "Dívidas" ELSE "Nenhuma dívida informada." >>)
    /\ pc' = "relatorio"
    /\ UNCHANGED <<entrada, dados_usuario, rodadas, MODEL_IA, CLIENT_SHEETS,
                   chamadas, planilha_url>>

\* the numeric summary, the expense table, the fund plan and the debts
Exibir ==
    /\ pc = "exibir"
    /\ UNCHANGED varsPub
    /\ Mostrar(<< "Resumo Numérico",
                  IF DOMAIN dados_usuario.gastos_por_categoria # {}
                  THEN "Detalhes de Gastos" ELSE "Nenhum gasto informado.",
                  IF dados_usuario.saldo_mensal_para_reserva > 0
                  THEN "Situação da Reserva de Emergência"
                  ELSE "aviso: saldo não permite iniciar a reserva",
                  IF dados_usuario.dividas # <<>>
                  THEN "Dívidas" ELSE "Nenhuma dívida informada." >>)
    /\ pc' = "feedback_ia"
    /\ UNCHANGED <<entrada, dados_usuario, rodadas, MODEL_IA, CLIENT_SHEETS,
                   chamadas, planilha_url>>

GerarFeedbackIA ==
    /\ pc = "feedback_ia"
    /\ UNCHANGED varsPub
    /\ \E resposta \in RespostasIA :
         /\ dados_usuario' = gerar_feedback_comportamento_ia(dados_usuario, resposta)
         /\ Mostrar((IF resposta.ok THEN <<>> ELSE <<"erro: IA Generativa">>)
                    \o <<"Análise e Recomendações da IA">>)
         /\ Chamar("generate_content", resposta.ok)
    /\ pc' = "relatorio"
    /\ UNCHANGED <<entrada, rodadas, MODEL_IA, CLIENT_SHEETS, planilha_url>>

GerarRelatorio ==
    /\ pc = "relatorio"
    /\ UNCHANGED varsPub
    /\ dados_usuario' = gerar_relatorio_mensal_simulado(dados_usuario)
    /\ pc' = "planilha"
    /\ UNCHANGED <<entrada, rodadas, varsMain>>

\* the documents a call can find under the name: none, one without the
\* worksheets, one holding an earlier publication
DocSemAbas == [DocInexistente EXCEPT !.existe = TRUE]

DocPublicado(d) ==
    [ DocSemAbas EXCEPT
        !.abas = [ t \in {titulos_abas[i] : i \in DOMAIN titulos_abas} |->
                     LinhasDaAba(CHOOSE i \in DOMAIN titulos_abas :
                                     titulos_abas[i] = t, d) ] ]

\* the answers of the service main() is followed under: every call succeeds,
\* the creation of the document fails
FalhasMain == {SemFalha, <<"create", 0>>}

\* planilha_url = gerar_planilha_google_sheets(dados_usuario, CLIENT_SHEETS, ...):
\* the call runs to its return on a first publication; main() keeps the
\* returned value and the object it passed as the call left it, and the
\* screen shows the call's messages
GerarPlanilha ==
    /\ pc = "planilha"
    /\ UNCHANGED varsPub
    /\ \E falha \in FalhasMain :
         LET s == gerar_planilha_google_sheets(
                      PubInicial(dados_usuario, CLIENT_SHEETS),
                      DocInexistente, falha)
         IN  /\ planilha_url' = s.e.retorno
             /\ dados_usuario' = s.e.dados
             /\ Mostrar(s.e.avisos)
             /\ Chamar("gerar_planilha_google_sheets", s.e.retorno # None)
    /\ pc' = "resultado"
    /\ UNCHANGED <<entrada, rodadas, MODEL_IA, CLIENT_SHEETS>>

\* variant of the final message: the link whatever the publisher returned
MensagemResultado_sempre_link(url, d) ==
    <<"Painel Interativo no Google Sheets">>
    \o (IF d.email_pessoal_usuario # "" THEN <<"info: convite enviado">>
                                         ELSE <<>>)

\* if planilha_url: the link (and the invitation note) ... else: the error
MensagemResultado(url, d) ==
    IF url # None
    THEN <<"Painel Interativo no Google Sheets">>
         \o (IF d.email_pessoal_usuario # "" THEN <<"info: convite enviado">>
                                              ELSE <<>>)
    ELSE <<"erro: painel não gerado">>

Resultado ==
    /\ pc = "resultado"
    /\ UNCHANGED varsPub
    /\ Mostrar(MensagemResultado(planilha_url, dados_usuario))
    /\ pc' = "fim"
    /\ UNCHANGED <<entrada, dados_usuario, rodadas, MODEL_IA, CLIENT_SHEETS,
                   chamadas, planilha_url>>

Next ==
    \/ ConfigurarIA
    \/ ConfigurarSheets
    \/ Formulario
    \/ Processar
    \/ Analisar
    \/ Planejar
    \/ Exibir
    \/ GerarFeedbackIA
    \/ GerarRelatorio
    \/ GerarPlanilha
    \/ Resultado

Spec == Init /\ [][Next]_vars

---------------------------------------------------------------------------
(* gerar_planilha_google_sheets followed call by call: SpecPub runs one    *)
(* publication on every document it can find, SpecPub2 runs the           *)
(* publications of two submissions on the same document.                   *)

\* the snapshot main() hands to the publisher for the form input ent
Snapshot(ent) ==
    gerar_relatorio_mensal_simulado(
      gerar_feedback_comportamento_ia(
        planejar_reserva_emergencia(
          analisar_fluxo_caixa(processar_dados_streamlit(ent))),
        [ok |-> TRUE, text |-> "Análise da IA"]))

EntradasPub ==
    [ email           : EmailsForm,
      renda           : {MaxRenda},
      fonte_renda     : {""},
      dependentes     : {0},
      estabilidade    : {"CLT"},
      gastos_dict     : FormDicts(categorias_sugeridas, CategoriasPreenchidas,
                                  {MaxValor}),
      patrimonio_dict : FormDicts(bens_sugeridos, {}, {}),
      dividas_list    : { DividasList("", 0, 0, 0, 0, 0),
                          DividasList("Cartão de Crédito", 1, 1, 18,
                                      MaxParcelas, MaxParcelas) } ]

SnapshotsPub == { Snapshot(ent) : ent \in EntradasPub }

\* the smallest and the largest of them: no expense and no debt, every
\* filled category and a debt
SnapshotsExtremos ==
    { s \in SnapshotsPub :
        \/ DOMAIN s.gastos_por_categoria = {} /\ s.dividas = <<>>
        \/ DOMAIN s.gastos_por_categoria = CategoriasPreenchidas
           /\ s.dividas # <<>> }

DocsIniciais ==
    {DocInexistente, DocSemAbas}
    \cup { DocPublicado(s) : s \in { x \in SnapshotsExtremos :
                                       x.email_pessoal_usuario = "" } }

InitPub ==
    /\ pc = "publicador"
    /\ entrada = None
    /\ dados_usuario = DadosFinanceirosUsuario
    /\ rodadas = 0
    /\ MODEL_IA = None
    /\ CLIENT_SHEETS = None
    /\ tela = <<>>
    /\ chamadas = <<>>
    /\ planilha_url = None
    /\ \E s \in SnapshotsPub, client \in {"client", None} :
         pub = [p \in Sessoes |-> IF p = 1 THEN PubInicial(s, client)
                                           ELSE PubOcioso]
    /\ doc \in DocsIniciais

InitPub2 ==
    /\ pc = "publicador"
    /\ entrada = None
    /\ dados_usuario = DadosFinanceirosUsuario
    /\ rodadas = 0
    /\ MODEL_IA = None
    /\ CLIENT_SHEETS = None
    /\ tela = <<>>
    /\ chamadas = <<>>
    /\ planilha_url = None
    /\ \E ss \in [Sessoes -> SnapshotsExtremos] :
         pub = [p \in Sessoes |-> PubInicial(ss[p], "client")]
    /\ doc \in DocsIniciais \ {DocInexistente}

\* another run is between its first call and its return
OutroAtivo(p) ==
    \E q \in Sessoes \ {p} : pub[q].pc \notin {"ocioso", "inicio", "fim"}

\* run p takes the step s
PubAplicar(p, s) ==
    /\ pub' = [pub EXCEPT ![p] = [s.e EXCEPT !.sobreposto = @ \/ OutroAtivo(p)]]
    /\ doc' = s.doc
    /\ UNCHANGED <<pc, entrada, dados_usuario, rodadas, varsMain>>

Iniciar(p) ==
    /\ pub[p].pc = "inicio"
    /\ PubAplicar(p, PassoInicio(pub[p], doc, "ok"))

Abrir(p) ==
    /\ pub[p].pc = "open"
    /\ \E r \in Respostas : PubAplicar(p, PassoAbrir(pub[p], doc, r))

Criar(p) ==
    /\ pub[p].pc = "create"
    /\ \E r \in Respostas : PubAplicar(p, PassoCriar(pub[p], doc, r))

Compartilhar(p) ==
    /\ pub[p].pc = "share"
    /\ \E r \in Respostas : PubAplicar(p, PassoCompartilhar(pub[p], doc, r))

BuscarAba(p) ==
    /\ pub[p].pc = "worksheet"
    /\ \E r \in Respostas : PubAplicar(p, PassoBuscarAba(pub[p], doc, r))

AdicionarAba(p) ==
    /\ pub[p].pc = "add_worksheet"
    /\ \E r \in Respostas : PubAplicar(p, PassoAdicionarAba(pub[p], doc, r))

LimparAba(p) ==
    /\ pub[p].pc = "clear"
    /\ \E r \in Respostas : PubAplicar(p, PassoLimpar(pub[p], doc, r))

AtualizarAba(p) ==
    /\ pub[p].pc = "update"
    /\ \E r \in Respostas : PubAplicar(p, PassoAtualizar(pub[p], doc, r))

NextPub ==
    \/ Iniciar(1)
    \/ Abrir(1)
    \/ Criar(1)
    \/ Compartilhar(1)
    \/ BuscarAba(1)
    \/ AdicionarAba(1)
    \/ LimparAba(1)
    \/ AtualizarAba(1)

SpecPub == InitPub /\ [][NextPub]_vars

\* the document exists, so no run reaches create
NextPub2 ==
    \E p \in Sessoes :
        \/ Iniciar(p)
        \/ Abrir(p)
        \/ Compartilhar(p)
        \/ BuscarAba(p)
        \/ AdicionarAba(p)
        \/ LimparAba(p)
        \/ AtualizarAba(p)

SpecPub2 == InitPub2 /\ [][NextPub2]_vars

---------------------------------------------------------------------------
(* Properties *)

\* positions at which analisar_fluxo_caixa has run on dados_usuario
AposAnalise ==
    { "calc_analisado", "calc_planejado", "planejar", "exibir", "feedback_ia",
      "relatorio", "planilha", "resultado", "fim" }

\* positions at which planejar_reserva_emergencia has run as the last stage
AposPlanejamento ==
    { "calc_planejado", "exibir", "feedback_ia", "relatorio", "planilha",
      "resultado", "fim" }

\* positions at which processar_dados_streamlit has built dados_usuario
AposProcessar == AposAnalise \cup { "calc_construido", "analisar" }

\* every key an expense mapping of the model can hold
TodasCategorias == categorias_sugeridas \cup CategoriasArg

\* the amounts of mapping d over the keys in chaves, added up key by key
RECURSIVE SomaSobre(_, _)
SomaSobre(chaves, d) ==
    IF chaves = {} THEN 0
    ELSE LET k == CHOOSE c \in chaves : TRUE
         IN  DictGet(d, k, 0) + SomaSobre(chaves \ {k}, d)

\* C1: after the cash-flow stage the balance is income minus total expenses
\* and the status is the sign of the balance: surplus iff > 0, deficit iff
\* < 0, balanced iff = 0, and nothing else.
C1_StatusSinalDoSaldo ==
    pc \in AposAnalise =>
      LET d == dados_usuario IN
      /\ d.saldo_mensal = d.renda_liquida_mensal - d.total_gastos_mensais
      /\ d.status_fluxo_caixa \in {"Superavitário", "Deficitário", "Equilibrado"}
      /\ d.status_fluxo_caixa = "Superavitário" <=> d.saldo_mensal > 0
      /\ d.status_fluxo_caixa = "Deficitário" <=> d.saldo_mensal < 0
      /\ d.status_fluxo_caixa = "Equilibrado" <=> d.saldo_mensal = 0

C1_Witness ==
    /\ pc = "calc_analisado"
    /\ dados_usuario.saldo_mensal < 0
    /\ dados_usuario.status_fluxo_caixa = "Deficitário"

\* C2: after the cash-flow stage the total of monthly expenses is the sum of
\* the amounts of the snapshot's expense mapping; with an empty mapping the
\* total is 0 and the balance is the income.
C2_TotalSomaDosGastos ==
    pc \in AposAnalise =>
      LET d == dados_usuario IN
      /\ d.total_gastos_mensais = SomaSobre(TodasCategorias, d.gastos_por_categoria)
      /\ DOMAIN d.gastos_por_categoria = {} =>
           /\ d.total_gastos_mensais = 0
           /\ d.saldo_mensal = d.renda_liquida_mensal

C2_Witness ==
    /\ pc = "calc_analisado"
    /\ Cardinality(DOMAIN dados_usuario.gastos_por_categoria) >= 2
    /\ \E k \in DOMAIN entrada.gastos_dict : entrada.gastos_dict[k] < 0
    /\ dados_usuario.total_gastos_mensais >= 3

\* C3: after the cash-flow stage the total of essential expenses is at most
\* the total of monthly expenses.
C3_EssenciaisNoMaximoTotal ==
    pc \in AposAnalise =>
      dados_usuario.total_gastos_essenciais <= dados_usuario.total_gastos_mensais

C3_Witness ==
    /\ pc = "calc_analisado"
    /\ \E k \in DOMAIN entrada.gastos_dict : entrada.gastos_dict[k] < 0
    /\ dados_usuario.total_gastos_essenciais > 0
    /\ dados_usuario.total_gastos_essenciais < dados_usuario.total_gastos_mensais

\* C4: after the fund-planning stage no division by zero has happened and the
\* balance available is never negative; with a balance <= 0 the balance
\* available is 0, the months-to-target is the infinity sentinel and the
\* suggested contribution is 0.
C4_SaldoNaoPositivoInalcancavel ==
    pc \in AposPlanejamento =>
      LET d == dados_usuario IN
      /\ d.tempo_para_montar_reserva_meses # ZeroDivisionError
      /\ d.saldo_mensal_para_reserva >= 0
      /\ d.saldo_mensal <= 0 =>
           /\ d.saldo_mensal_para_reserva = 0
           /\ d.tempo_para_montar_reserva_meses = Inf
           /\ d.meta_mensal_reserva = 0

C4_Witness ==
    /\ pc = "calc_planejado"
    /\ dados_usuario.saldo_mensal = 0
    /\ dados_usuario.total_gastos_essenciais > 0
    /\ dados_usuario.tempo_para_montar_reserva_meses = Inf

\* C5: after the fund-planning stage, with a balance > 0, the balance
\* available is the balance, the ideal target is essential expenses times
\* the horizon, the months-to-target is the finite quotient target /
\* balance available, and the contribution is the balance available.
C5_SaldoPositivoQuociente ==
    (pc \in AposPlanejamento /\ dados_usuario.saldo_mensal > 0) =>
      LET d == dados_usuario
          t == d.tempo_para_montar_reserva_meses
      IN
      /\ d.saldo_mensal_para_reserva = d.saldo_mensal
      /\ d.valor_reserva_emergencia_ideal =
           d.total_gastos_essenciais * d.meses_reserva_sugerido
      /\ ~t.inf /\ t.den > 0
      /\ t.num * d.saldo_mensal_para_reserva =
           d.valor_reserva_emergencia_ideal * t.den
      /\ d.meta_mensal_reserva = d.saldo_mensal_para_reserva

\* essential 2, horizon 6, balance 1: target 12, 12 months
C5_Witness ==
    /\ pc = "calc_planejado"
    /\ dados_usuario.total_gastos_essenciais = 2
    /\ dados_usuario.total_gastos_mensais = 2
    /\ dados_usuario.meses_reserva_sugerido = 6
    /\ dados_usuario.saldo_mensal = 1
    /\ dados_usuario.valor_reserva_emergencia_ideal = 12
    /\ dados_usuario.tempo_para_montar_reserva_meses =
         [inf |-> FALSE, num |-> 12, den |-> 1]
    /\ dados_usuario.meta_mensal_reserva = 1

\* C6: for every stability category of the form, after the fund-planning
\* stage the horizon is 12 exactly when the category is Autônomo or Informal
\* and 6 for every other category.
C6_HorizontePorEstabilidade ==
    pc \in AposPlanejamento =>
      LET d == dados_usuario IN
      /\ d.estabilidade_financeira \in {"Autônomo", "Informal"} =>
           d.meses_reserva_sugerido = 12
      /\ d.estabilidade_financeira \notin {"Autônomo", "Informal"} =>
           d.meses_reserva_sugerido = 6

C6_Witness ==
    /\ pc = "exibir"
    /\ dados_usuario.estabilidade_financeira = "Informal"
    /\ dados_usuario.meses_reserva_sugerido = 12

\* the entries of mapping antes with a strictly positive amount are exactly
\* the entries of mapping depois
ExatamenteOsPositivos(antes, depois) ==
    /\ DOMAIN depois = {k \in DOMAIN antes : antes[k] > 0}
    /\ \A k \in DOMAIN depois : depois[k] = antes[k]

\* C7: the snapshot's expense mapping and asset mapping hold exactly the
\* input entries whose amount is strictly positive, amounts unchanged.
C7_FiltroEstritamentePositivo ==
    pc \in AposProcessar =>
      /\ ExatamenteOsPositivos(entrada.gastos_dict,
                               dados_usuario.gastos_por_categoria)
      /\ ExatamenteOsPositivos(entrada.patrimonio_dict,
                               dados_usuario.patrimonio)

C7_Witness ==
    /\ pc = "calc_construido"
    /\ \E k \in DOMAIN entrada.gastos_dict : entrada.gastos_dict[k] < 0
    /\ \E k \in DOMAIN entrada.gastos_dict : entrada.gastos_dict[k] = 0
    /\ \E k \in DOMAIN entrada.gastos_dict : entrada.gastos_dict[k] > 0
    /\ DOMAIN entrada.patrimonio_dict # {}
    /\ DOMAIN dados_usuario.patrimonio = {}

\* C8: a category absent from the classification table ("Pets") with a
\* positive amount is classified Variável/Variável, counts in the total of
\* monthly expenses and does not count in the total of essential expenses.
C8_CategoriaDesconhecida ==
    ( /\ pc \in AposProcessar
      /\ "Pets" \in DOMAIN entrada.gastos_dict
      /\ entrada.gastos_dict["Pets"] > 0 ) =>
      LET d == dados_usuario
          outros == Restringir(d.gastos_por_categoria,
                               DOMAIN d.gastos_por_categoria \ {"Pets"})
      IN
      /\ "Pets" \notin DOMAIN classificacao_padrao
      /\ "Pets" \in DOMAIN d.classificacao_gastos
      /\ d.classificacao_gastos["Pets"] =
           [tipo |-> "Variável", natureza |-> "Variável"]
      /\ pc \in AposAnalise =>
           /\ d.total_gastos_mensais =
                entrada.gastos_dict["Pets"] + SomaSobre(TodasCategorias, outros)
           /\ d.total_gastos_essenciais =
                SomaSobre({ c \in TodasCategorias \ {"Pets"} :
                              c \in DOMAIN classificacao_padrao
                              /\ classificacao_padrao[c].tipo = "Essencial" },
                          outros)

C8_Witness ==
    /\ pc = "calc_analisado"
    /\ "Pets" \in DOMAIN entrada.gastos_dict
    /\ entrada.gastos_dict["Pets"] = 2
    /\ dados_usuario.total_gastos_essenciais = 1
    /\ dados_usuario.total_gastos_mensais = 3

\* the fields the two calculator stages compute
Derivados(d) ==
    << d.total_gastos_mensais, d.total_gastos_essenciais, d.saldo_mensal,
       d.status_fluxo_caixa, d.meses_reserva_sugerido,
       d.valor_reserva_emergencia_ideal, d.saldo_mensal_para_reserva,
       d.tempo_para_montar_reserva_meses, d.meta_mensal_reserva >>

\* C9: once both stages have run on a snapshot, running the cash-flow stage
\* and the fund-planning stage again changes no derived field.
C9_Idempotencia ==
    [][rodadas >= 1 => Derivados(dados_usuario') = Derivados(dados_usuario)]_vars

C9_Witness ==
    /\ pc = "calc_planejado"
    /\ rodadas >= 2
    /\ dados_usuario.total_gastos_essenciais > 0
    /\ dados_usuario.saldo_mensal > 0

\* the narrative call was made and failed
FalhaIA ==
    \E i \in DOMAIN chamadas :
        chamadas[i] = [fn |-> "generate_content", ok |-> FALSE]

PlanilhaInvocada ==
    \E i \in DOMAIN chamadas : chamadas[i].fn = "gerar_planilha_google_sheets"

\* C10: when the narrative call fails the snapshot's narrative is the fixed
\* fallback message and the run goes on: it is never stuck before its end,
\* the report is assembled (holding the fallback message) and the
\* spreadsheet publisher is invoked.
C10_FalhaIANaoFatal ==
    FalhaIA =>
      /\ dados_usuario.feedback_ia_comportamento = MensagemFallbackIA
      /\ pc \in {"relatorio", "planilha", "resultado", "fim"}
      /\ pc # "fim" => ENABLED Next
      /\ pc \in {"planilha", "resultado", "fim"} =>
           /\ dados_usuario.relatorio_mensal_simulado # <<>>
           /\ dados_usuario.relatorio_mensal_simulado
                [Len(dados_usuario.relatorio_mensal_simulado)].rotulo
                = MensagemFallbackIA
      /\ pc \in {"resultado", "fim"} => PlanilhaInvocada

C10_Witness ==
    /\ pc = "fim"
    /\ FalhaIA
    /\ PlanilhaInvocada
    /\ dados_usuario.feedback_ia_comportamento = MensagemFallbackIA

---------------------------------------------------------------------------
(* The publisher, one publication followed call by call (SpecPub) *)

\* the run SpecPub follows
Pub1 == pub[1]

\* the names of the calls made so far, and the messages shown so far
OpsFeitas(e) == { e.ops[i] : i \in DOMAIN e.ops }
Avisos(e) == { e.avisos[i] : i \in DOMAIN e.avisos }

\* the calls that reach a worksheet
OpsDeSecao(e) ==
    { o \in OpsFeitas(e) :
        o[1] \in {"worksheet", "add_worksheet", "clear", "update"} }

\* every section of the document holds the rows of snapshot dd
SecoesDe(dd) ==
    /\ DOMAIN doc.abas = { titulos_abas[i] : i \in DOMAIN titulos_abas }
    /\ \A i \in DOMAIN titulos_abas :
         doc.abas[titulos_abas[i]] = LinhasDaAba(i, dd)

\* C11 as stated, its last clause: once the document is opened or created the
\* call returns the document's URL.
C11_Original ==
    (Pub1.pc = "fim" /\ Pub1.spreadsheet # None) => Pub1.retorno = UrlPlanilha

\* C11 (amended): the first call is the lookup, and create is called only
\* after the lookup reported the document absent (no second document of the
\* name is ever made); a run that ends without a document (the lookup or the
\* creation failed, or there is no client) returns None and has reached no
\* worksheet; a run that got its document returns the URL exactly when no
\* later call failed, and None with the general error otherwise.
C11_AbrirOuCriar ==
    /\ Pub1.ops # <<>> => Pub1.ops[1] = <<"open", 0>>
    /\ <<"create", 0>> \in OpsFeitas(Pub1) =>
         /\ Len(Pub1.ops) >= 2
         /\ Pub1.ops[2] = <<"create", 0>>
         /\ "aviso: planilha não encontrada" \in Avisos(Pub1)
    /\ doc.duplicatas = 0
    /\ Pub1.pc = "fim" =>
         /\ Pub1.retorno \in {None, UrlPlanilha}
         /\ Pub1.spreadsheet = None =>
              /\ Pub1.retorno = None
              /\ OpsDeSecao(Pub1) = {}
              /\ \E d \in DocsIniciais : doc.abas = d.abas
         /\ Pub1.spreadsheet # None =>
              (Pub1.retorno = UrlPlanilha <=>
                 "erro: ERRO GERAL" \notin Avisos(Pub1))

\* a created document, its first section written, a later call failed:
\* no URL
C11_Witness ==
    /\ Pub1.pc = "fim"
    /\ <<"create", 0>> \in OpsFeitas(Pub1)
    /\ Pub1.spreadsheet # None
    /\ <<"update", 1>> \in OpsFeitas(Pub1)
    /\ Pub1.retorno = None

\* C12: share is called only for a non-empty contact email, and a share that
\* fails leaves a warning and nothing else: the run goes on to the
\* worksheets, and from the share on it returns the same value, makes the
\* same calls and leaves the same sections as with a share that succeeds.
C12_CompartilharNaoFatal ==
    /\ <<"share", 0>> \in OpsFeitas(Pub1) =>
         Pub1.dados.email_pessoal_usuario # ""
    /\ ("aviso: não foi possível compartilhar" \in Avisos(Pub1)
        /\ "erro: ERRO GERAL" \notin Avisos(Pub1)) =>
         /\ <<"share", 0>> \in OpsFeitas(Pub1)
         /\ Pub1.pc # "share"
         /\ Pub1.pc = "fim" => (Pub1.retorno = UrlPlanilha
                                /\ SecoesDe(Pub1.dados))
    /\ Pub1.pc = "share" =>
         LET falhou == gerar_planilha_google_sheets(Pub1, doc, <<"share", 0>>)
             passou == gerar_planilha_google_sheets(Pub1, doc, SemFalha)
         IN  /\ falhou.e.retorno = UrlPlanilha
             /\ falhou.e.retorno = passou.e.retorno
             /\ falhou.e.ops = passou.e.ops
             /\ falhou.doc.abas = passou.doc.abas

C12_Witness ==
    /\ Pub1.pc = "fim"
    /\ "aviso: não foi possível compartilhar" \in Avisos(Pub1)
    /\ Pub1.retorno = UrlPlanilha
    /\ SecoesDe(Pub1.dados)

---------------------------------------------------------------------------
(* main(): configuration, the order of the steps, the failed publication *)

\* no submission has been processed: the snapshot is as constructed, no
\* stage has run, neither outbound call has been made
NadaProcessado ==
    /\ dados_usuario = DadosFinanceirosUsuario
    /\ rodadas = 0
    /\ chamadas = <<>>
    /\ planilha_url = None

\* C13: a run whose AI model or spreadsheet client could not be set up halts
\* before the form: it builds no snapshot, runs no calculator stage and
\* makes neither outbound call, and nothing follows the halt.
C13_ParadaSemCredenciais ==
    /\ (MODEL_IA = None \/ CLIENT_SHEETS = None) =>
         /\ pc \in {"config_ia", "config_sheets", "parado"}
         /\ NadaProcessado
    /\ pc = "parado" =>
         /\ MODEL_IA = None \/ CLIENT_SHEETS = None
         /\ NadaProcessado
         /\ tela # <<>>
         /\ tela[Len(tela)] \in {"erro: GOOGLE_API_KEY", "erro: Gemini",
                                 "erro: credenciais Sheets"}
         /\ ~ ENABLED Next

\* the model was set up, the spreadsheet credentials failed
C13_Witness ==
    /\ pc = "parado"
    /\ MODEL_IA # None
    /\ CLIENT_SHEETS = None
    /\ NadaProcessado

\* what the screen shows
NaTela == { tela[i] : i \in DOMAIN tela }

\* the snapshot of the submitted form after both calculator stages
Calculado ==
    planejar_reserva_emergencia(
        analisar_fluxo_caixa(processar_dados_streamlit(entrada)))

\* the last call main() made is the publisher and it returned None
PublicacaoFalhou ==
    /\ chamadas # <<>>
    /\ chamadas[Len(chamadas)] =
         [fn |-> "gerar_planilha_google_sheets", ok |-> FALSE]

\* C14: when the publisher fails the run still ends, its last message is the
\* publishing error and no link is shown; the numeric summary, the expense
\* table, the fund plan and the narrative were shown before it, and the
\* snapshot's computed fields are those of the submission (as they are when
\* publishing succeeds).
C14_FalhaSoDaPublicacao ==
    /\ pc = "resultado" => ENABLED Next
    /\ pc = "fim" =>
         /\ planilha_url = None <=> PublicacaoFalhou
         /\ Derivados(dados_usuario) = Derivados(Calculado)
         /\ dados_usuario.gastos_por_categoria = Calculado.gastos_por_categoria
         /\ dados_usuario.classificacao_gastos = Calculado.classificacao_gastos
    /\ (pc = "fim" /\ PublicacaoFalhou) =>
         /\ tela[Len(tela)] = "erro: painel não gerado"
         /\ "Painel Interativo no Google Sheets" \notin NaTela
         /\ \E i \in DOMAIN tela :
              /\ tela[i] = "Resumo Numérico"
              /\ tela[i + 1] \in {"Detalhes de Gastos", "Nenhum gasto informado."}
              /\ tela[i + 2] \in {"Situação da Reserva de Emergência",
                                  "aviso: saldo não permite iniciar a reserva"}
              /\ \E l \in i + 3 .. Len(tela) - 1 :
                   tela[l] = "Análise e Recomendações da IA"
    /\ (pc = "fim" /\ ~ PublicacaoFalhou) =>
         "Painel Interativo no Google Sheets" \in NaTela

\* the publisher could not create the document
C14_Witness ==
    /\ pc = "fim"
    /\ PublicacaoFalhou
    /\ "erro: ERRO GRAVE ao criar" \in NaTela
    /\ tela[Len(tela)] = "erro: painel não gerado"
    /\ dados_usuario.saldo_mensal > 0

\* the functions main() has called so far, in order
FuncoesChamadas == [i \in DOMAIN chamadas |-> chamadas[i].fn]

\* the cash-flow stage has run; the fund-planning stage has run
FluxoAnalisado == dados_usuario.status_fluxo_caixa # ""
ReservaPlanejada == dados_usuario.meses_reserva_sugerido > 0

MensagensFinais ==
    {"Painel Interativo no Google Sheets", "erro: painel não gerado"}

\* C16: the narrative call is made first and has returned before the report
\* is assembled and before the publisher is called; the final link or error
\* is shown only after the publisher returned; the cash-flow stage runs
\* before the fund-planning stage, and both before either call.
C16_OrdemDasChamadas ==
    /\ \/ FuncoesChamadas = <<>>
       \/ FuncoesChamadas = <<"generate_content">>
       \/ FuncoesChamadas = <<"generate_content", "gerar_planilha_google_sheets">>
    /\ dados_usuario.relatorio_mensal_simulado # <<>> =>
         /\ Len(chamadas) >= 1
         /\ dados_usuario.feedback_ia_comportamento # ""
    /\ Len(chamadas) = 2 => dados_usuario.relatorio_mensal_simulado # <<>>
    /\ NaTela \cap MensagensFinais # {} =>
         /\ Len(chamadas) = 2
         /\ planilha_url = None <=> PublicacaoFalhou
         /\ pc = "fim"
    /\ pc = "fim" => NaTela \cap MensagensFinais # {}
    /\ chamadas # <<>> => (FluxoAnalisado /\ ReservaPlanejada)
    /\ ReservaPlanejada => FluxoAnalisado
    /\ pc = "analisar" => (~ FluxoAnalisado /\ ~ ReservaPlanejada)
    /\ pc = "planejar" => (FluxoAnalisado /\ ~ ReservaPlanejada)
    /\ pc = "exibir" => (ReservaPlanejada /\ chamadas = <<>>)

C16_Witness ==
    /\ pc = "fim"
    /\ FuncoesChamadas = <<"generate_content", "gerar_planilha_google_sheets">>
    /\ NaTela \cap MensagensFinais # {}
    /\ dados_usuario.relatorio_mensal_simulado # <<>>
    /\ ReservaPlanejada

\* C17: every debt record of a snapshot has 0 <= parcelas_restantes <=
\* parcelas_totais, whatever the form accepted, and a snapshot holds at most
\* one debt record.
C17_ParcelasCoerentes ==
    /\ Len(dados_usuario.dividas) <= 1
    /\ \A i \in DOMAIN dados_usuario.dividas :
         /\ dados_usuario.dividas[i].parcelas_restantes >= 0
         /\ dados_usuario.dividas[i].parcelas_restantes
              <= dados_usuario.dividas[i].parcelas_totais

---------------------------------------------------------------------------
(* The three worksheets after a publication (SpecPub) *)

\* the clear and update calls of run e, in the order it made them
LimpezasEEscritas(e) ==
    LET Escreve(o) == o[1] \in {"clear", "update"}
    IN  SelectSeq(e.ops, Escreve)

---------------------------------------------------------------------------
(* Two publications on the same document (SpecPub2) *)

\* both runs have returned the document's URL
AmbosPublicaram ==
    \A p \in Sessoes : pub[p].pc = "fim" /\ pub[p].retorno = UrlPlanilha

\* some call of one run was made between the first call and the return of
\* the other
HouveSobreposicao == \E p \in Sessoes : pub[p].sobreposto

\* C15: the clear-then-write of a section is not atomic. Two publications
\* that do not overlap leave the document of one submission, so a document
\* that mixes the two submissions after both returned the URL comes from an
\* interleaving of their calls; such a document is reachable (C15_Witness).
C15_MisturaPorIntercalacao ==
    (AmbosPublicaram /\ ~ HouveSobreposicao) =>
        \E p \in Sessoes : SecoesDe(pub[p].dados)

\* both returned the URL; the summary is of submission 1, the expense and
\* debt tables are of submission 2, and the two submissions differ
C15_Witness ==
    /\ AmbosPublicaram
    /\ doc.abas["Resumo Geral"] = resumo_data(pub[1].dados)
    /\ doc.abas["Gastos Detalhados"] = gastos_rows(pub[2].dados)
    /\ doc.abas["Dívidas"] = dividas_rows(pub[2].dados)
    /\ resumo_data(pub[1].dados) # resumo_data(pub[2].dados)
    /\ gastos_rows(pub[1].dados) # gastos_rows(pub[2].dados)
    /\ dividas_rows(pub[1].dados) # dividas_rows(pub[2].dados)
    /\ \A p \in Sessoes : ~ SecoesDe(pub[p].dados)

---------------------------------------------------------------------------
(* The snapshot after the fund-planning stage *)

\* the positions of main() after the narrative step
AposNarrativa == {"relatorio", "planilha", "resultado", "fim"}

\* the snapshot without the two texts the later steps store in it
SemTextos(d) ==
    [d EXCEPT !.feedback_ia_comportamento = "",
              !.relatorio_mensal_simulado = <<>>]

\* C19 as stated: after the fund-planning stage no later step changes any
\* field of the snapshot, so it stays the snapshot the stage left.
C19_Original ==
    pc \in AposNarrativa => dados_usuario = Calculado

\* C19 (amended): the narrative step, the report step and the publisher
\* change no input, classification or derived field of the snapshot,
\* whether they succeed or fail. The narrative step stores its text in
\* feedback_ia_comportamento and nothing else, the report step stores the
\* report in relatorio_mensal_simulado and nothing else, and the publisher
\* changes no field at all.
C19_SoOsTextos ==
    [][ /\ pc \in {"feedback_ia", "relatorio", "planilha"} =>
             SemTextos(dados_usuario') = SemTextos(dados_usuario)
        /\ pc = "feedback_ia" =>
             dados_usuario'.relatorio_mensal_simulado
               = dados_usuario.relatorio_mensal_simulado
        /\ pc = "relatorio" =>
             dados_usuario'.feedback_ia_comportamento
               = dados_usuario.feedback_ia_comportamento
        /\ pc = "planilha" => dados_usuario' = dados_usuario ]_vars

\* both texts stored, the narrative call and the publisher failed, every
\* other field as the fund-planning stage left it
C19_Witness ==
    /\ pc = "fim"
    /\ FalhaIA
    /\ PublicacaoFalhou
    /\ dados_usuario.feedback_ia_comportamento # ""
    /\ dados_usuario.relatorio_mensal_simulado # <<>>
    /\ dados_usuario # Calculado
    /\ SemTextos(dados_usuario) = Calculado

=============================================================================
